---- MODULE Spec2Model ----
(***************************************************************************)
(* AssetBundle: the archive encoder (encodeAssetBundle) and the streaming  *)
(* decoder (decodeAssetBundleStream) of src/unnamed/part_000.               *)
(*                                                                         *)
(* A byte is a number in 0..255, a byte buffer a sequence of bytes, a      *)
(* string a sequence of code points.                                       *)
(***************************************************************************)
EXTENDS Integers, Sequences, FiniteSets, TLC

VARIABLES
    op,       \* which program runs: "pack" (encode, then decode the Blob), "read" (decode a
              \* stream), "lengths" (the encoder's length prefixes of a long name or type),
              \* "reads" (calls of readBytes on a stream) or "bundle" (decodeAssetBundle)
    files,    \* encodeAssetBundle's argument
    enc,      \* encodeAssetBundle's locals and result
    lengths,  \* the byte lengths of one file's name and type, and the prefixes written for them
    source,   \* how the decoder's input was made (the valid archive it came from, the change, the chunk size)
    dec,      \* decodeAssetBundleStream's closure: reader, chunk, cursor, chunks, running, locals, yields
    bundle    \* decodeAssetBundle's loop over the generator and its map

vars == <<op, files, enc, lengths, source, dec, bundle>>

----------------------------------------------------------------------------
(* Bounds of the model *)

\* entries of an input list of encodeAssetBundle
MaxFiles == 2
\* entries of a valid archive handed to the decoder as a stream
MaxEntries == 2
\* largest uniform chunk size of a stream (a larger one is the single chunk)
MaxChunkSize == 4
\* bytes of the stream readBytes is called on by itself
MaxStream == 6
\* largest n of such a call of readBytes
MaxRead == 5
\* entries of a valid archive handed to decodeAssetBundle
MaxBundleEntries == 3

----------------------------------------------------------------------------
(* Sequences *)

Min(a, b) == IF a < b THEN a ELSE b

\* s[from+1 .. to], JavaScript's slice(from, to) on a typed array
Slice(s, from, to) == SubSeq(s, from + 1, Min(to, Len(s)))

RECURSIVE Concat(_)
Concat(ss) == IF ss = <<>> THEN <<>> ELSE Head(ss) \o Concat(Tail(ss))

RECURSIVE SumBytes(_)
SumBytes(s) == IF s = <<>> THEN 0 ELSE Head(s) + SumBytes(Tail(s))

\* all sequences over S of length at most n
SeqsUpTo(S, n) == UNION {[1..k -> S] : k \in 0..n}

----------------------------------------------------------------------------
(* Typed arrays and text *)

\* "BUNDLE1"
HEAD == <<66, 85, 78, 68, 76, 69, 49>>

HeadLen == 7

HashLen == 20

\* the values of a Uint16Array element
Uint16Range == 65536

\* new Uint16Array([n]): n modulo 2^16, stored little-endian
ToUint16(n) == n % Uint16Range

Uint16Bytes(n) == <<ToUint16(n) % 256, ToUint16(n) \div 256>>

\* new Uint32Array([n]), little-endian; every length of the model is below 2^31,
\* so none wraps at 2^32
Uint32Bytes(n) == <<n % 256, (n \div 256) % 256, (n \div 65536) % 256, n \div 16777216>>

\* new Uint16Array(buffer)[0] on a 2-byte buffer
ReadUint16(b) == b[1] + 256 * b[2]

\* the largest integer of the model
MaxInt == 127 * 16777216 + 16777215

\* new Uint32Array(buffer)[0] on a 4-byte buffer; a value of 2^31 or more is read
\* as MaxInt, which like it is beyond the length of every stream of the model
ReadUint32(b) ==
    IF b[4] >= 128 THEN MaxInt
    ELSE b[1] + 256 * b[2] + 65536 * b[3] + 16777216 * b[4]

IsAscii(s) == \A i \in 1..Len(s) : s[i] < 128

\* UTF-8 of one code point (a lone surrogate is written as U+FFFD)
Utf8OfCodePoint(c) ==
    IF c < 128 THEN <<c>>
    ELSE IF c < 2048 THEN <<192 + (c \div 64), 128 + (c % 64)>>
    ELSE IF c >= 55296 /\ c <= 57343 THEN <<239, 191, 189>>
    ELSE IF c < 65536
        THEN <<224 + (c \div 4096), 128 + ((c \div 64) % 64), 128 + (c % 64)>>
    ELSE <<240 + (c \div 262144), 128 + ((c \div 4096) % 64),
           128 + ((c \div 64) % 64), 128 + (c % 64)>>

RECURSIVE Utf8Encode(_)
\* new TextEncoder().encode(s)
Utf8Encode(s) ==
    IF IsAscii(s) THEN s
    ELSE Utf8OfCodePoint(Head(s)) \o Utf8Encode(Tail(s))

IsCont(b, i, lo, hi) == i <= Len(b) /\ b[i] >= lo /\ b[i] <= hi

RECURSIVE Utf8DecodeFrom(_, _)
\* the UTF-8 decoder from byte i on: an ill-formed sequence gives U+FFFD
Utf8DecodeFrom(b, i) ==
    IF i > Len(b) THEN <<>>
    ELSE LET c == b[i]
             lo2 == IF c = 224 THEN 160 ELSE IF c = 240 THEN 144 ELSE 128
             hi2 == IF c = 237 THEN 159 ELSE IF c = 244 THEN 143 ELSE 191
         IN IF c < 128 THEN <<c>> \o Utf8DecodeFrom(b, i + 1)
            ELSE IF c >= 194 /\ c <= 223
                THEN IF IsCont(b, i + 1, 128, 191)
                     THEN <<(c - 192) * 64 + (b[i + 1] - 128)>> \o Utf8DecodeFrom(b, i + 2)
                     ELSE <<65533>> \o Utf8DecodeFrom(b, i + 1)
            ELSE IF c >= 224 /\ c <= 239
                THEN IF ~IsCont(b, i + 1, lo2, hi2)
                     THEN <<65533>> \o Utf8DecodeFrom(b, i + 1)
                     ELSE IF ~IsCont(b, i + 2, 128, 191)
                     THEN <<65533>> \o Utf8DecodeFrom(b, i + 2)
                     ELSE <<(c - 224) * 4096 + (b[i + 1] - 128) * 64 + (b[i + 2] - 128)>>
                          \o Utf8DecodeFrom(b, i + 3)
            ELSE IF c >= 240 /\ c <= 244
                THEN IF ~IsCont(b, i + 1, lo2, hi2)
                     THEN <<65533>> \o Utf8DecodeFrom(b, i + 1)
                     ELSE IF ~IsCont(b, i + 2, 128, 191)
                     THEN <<65533>> \o Utf8DecodeFrom(b, i + 2)
                     ELSE IF ~IsCont(b, i + 3, 128, 191)
                     THEN <<65533>> \o Utf8DecodeFrom(b, i + 3)
                     ELSE <<(c - 240) * 262144 + (b[i + 1] - 128) * 4096
                            + (b[i + 2] - 128) * 64 + (b[i + 3] - 128)>>
                          \o Utf8DecodeFrom(b, i + 4)
            ELSE <<65533>> \o Utf8DecodeFrom(b, i + 1)

\* td.decode(b): new TextDecoder() reads UTF-8 and drops a leading byte order mark
TextDecode(b) ==
    IF IsAscii(b) THEN b
    ELSE LET s == Utf8DecodeFrom(b, 1)
         IN IF s # <<>> /\ s[1] = 65279 THEN Tail(s) ELSE s

\* crypto.subtle.digest("sha-1", b): 20 bytes that depend on every byte of b
\* (a checksum stands for SHA-1: it changes whenever one byte changes)
Sha1(b) == [i \in 1..HashLen |-> (SumBytes(b) * i + Len(b)) % 256]

----------------------------------------------------------------------------
(* JavaScript values the encoder is given *)

\* file.type: undefined, a string, or (after line 51) an ArrayBuffer object
TypeUndefined == [kind |-> "undefined", text |-> <<>>]

TypeString(s) == [kind |-> "string", text |-> s]

TypeArrayBuffer == [kind |-> "ArrayBuffer", text |-> <<>>]

\* "[object ArrayBuffer]", what String(anArrayBuffer) is
ObjectArrayBuffer ==
    <<91, 111, 98, 106, 101, 99, 116, 32, 65, 114, 114, 97, 121, 66, 117, 102, 102, 101, 114, 93>>

\* "application/octet-stream"
OctetStream ==
    <<97, 112, 112, 108, 105, 99, 97, 116, 105, 111, 110, 47,
      111, 99, 116, 101, 116, 45, 115, 116, 114, 101, 97, 109>>

\* the argument of TextEncoder.encode as a string: undefined is the default "",
\* an object is its String()
ToUSVString(type) ==
    CASE type.kind = "undefined" -> <<>>
      [] type.kind = "string" -> type.text
      [] OTHER -> ObjectArrayBuffer

\* file.data: the shapes of AssetBundleInput; `buffer` is the string's, the Blob's
\* or the ArrayBuffer's content, or the ArrayBuffer behind a typed array
StringData(s) ==
    [shape |-> "string", text |-> s, buffer |-> <<>>, byteOffset |-> 0, byteLength |-> 0]

Uint8ArrayData(buf, off, n) ==
    [shape |-> "Uint8Array", text |-> <<>>, buffer |-> buf, byteOffset |-> off, byteLength |-> n]

ArrayBufferData(buf) ==
    [shape |-> "ArrayBuffer", text |-> <<>>, buffer |-> buf, byteOffset |-> 0,
     byteLength |-> Len(buf)]

BlobData(buf) ==
    [shape |-> "Blob", text |-> <<>>, buffer |-> buf, byteOffset |-> 0, byteLength |-> Len(buf)]

\* the bytes the caller handed over as the payload
PayloadOf(data) ==
    IF data.shape = "string" THEN Utf8Encode(data.text)
    ELSE Slice(data.buffer, data.byteOffset, data.byteOffset + data.byteLength)

----------------------------------------------------------------------------
(* encodeAssetBundle *)

NoError == [kind |-> "none", name |-> <<>>]

NoBlob == [made |-> FALSE, bytes |-> <<>>, type |-> ""]

\* lines 35-37: the locals before the loop
EncStart ==
    [pc |-> "loop", i |-> 1, chunks |-> <<>>, offset |-> 0, seenFilenames |-> {},
     error |-> NoError, blob |-> NoBlob]

EncIdle == [EncStart EXCEPT !.pc = "idle"]

\* lines 45-51: the buffer the payload is taken from, and `type` after the expression
\* (data.arrayBuffer is reached only through `type ??= ...`: with a type given,
\* the expression's value is the type itself)
ResolveBuffer(file) ==
    LET data == file.data
    IN CASE data.shape = "string" ->
              [isArrayBuffer |-> TRUE, buffer |-> Utf8Encode(data.text), type |-> file.type]
         [] data.shape = "Uint8Array" ->
              [isArrayBuffer |-> TRUE, buffer |-> data.buffer, type |-> file.type]
         [] data.shape = "Blob" ->
              IF file.type.kind = "undefined"
              THEN [isArrayBuffer |-> TRUE, buffer |-> data.buffer, type |-> TypeArrayBuffer]
              ELSE [isArrayBuffer |-> FALSE, buffer |-> <<>>, type |-> file.type]
         [] data.shape = "ArrayBuffer" ->
              [isArrayBuffer |-> TRUE, buffer |-> data.buffer, type |-> file.type]
         [] OTHER ->
              [isArrayBuffer |-> FALSE, buffer |-> <<>>, type |-> file.type]

\* lines 57 and 60: new Uint16Array([buffer.byteLength]), pushed as it is
LengthPrefix(byteLength) == Uint16Bytes(byteLength)

\* lines 56-69: what one file pushes on `chunks`
EntryChunks(name, type, buffer) ==
    LET nameBuffer == Utf8Encode(name)
        typeBuffer == Utf8Encode(ToUSVString(type))
    IN << LengthPrefix(Len(nameBuffer)), nameBuffer,
          LengthPrefix(Len(typeBuffer)), typeBuffer,
          Uint32Bytes(Len(buffer)), buffer,
          Sha1(buffer) >>

\* lines 38-70: one iteration of the loop over `files`
EncodeFile(e, file) ==
    LET name == file.name
        r == ResolveBuffer(file)
        seen == e.seenFilenames \cup {name}
    IN IF name \in e.seenFilenames
       THEN [e EXCEPT !.pc = "thrown",
                      !.error = [kind |-> "Duplicate filename", name |-> name]]
       ELSE IF ~r.isArrayBuffer
       THEN [e EXCEPT !.pc = "thrown", !.seenFilenames = seen,
                      !.error = [kind |-> "Could not convert", name |-> name]]
       ELSE IF Len(Sha1(r.buffer)) # HashLen
       THEN [e EXCEPT !.pc = "thrown", !.seenFilenames = seen,
                      !.error = [kind |-> "Hash is not 20 bytes long", name |-> name]]
       ELSE [e EXCEPT !.i = e.i + 1, !.seenFilenames = seen,
                      !.offset = e.offset + Len(r.buffer),
                      !.chunks = e.chunks \o EntryChunks(name, r.type, r.buffer)]

\* lines 56-61 for a file whose name and type encode to the given numbers of bytes:
\* nothing is thrown, the two prefixes are pushed
PushLengths(l) ==
    [l EXCEPT !.pc = "pushed",
              !.namePrefix = LengthPrefix(l.nameByteLength),
              !.typePrefix = LengthPrefix(l.typeByteLength)]

NoLengths ==
    [pc |-> "idle", nameByteLength |-> 0, typeByteLength |-> 0,
     namePrefix |-> <<>>, typePrefix |-> <<>>]

\* line 71: new Blob([HEAD, ...chunks], { type: "application/asset-bundle" })
EncodeBlob(e) ==
    [e EXCEPT !.pc = "returned",
              !.blob = [made |-> TRUE, bytes |-> HEAD \o Concat(e.chunks),
                        type |-> "application/asset-bundle"]]

----------------------------------------------------------------------------
(* decodeAssetBundleStream *)

NoData == [isBlob |-> FALSE, type |-> <<>>, bytes |-> <<>>]

\* no call of readBytes yet
NoCall ==
    [n |-> 0, startChunk |-> 0, startCursor |-> 0, chunk |-> 0, cursor |-> 0,
     result |-> "none", bytes |-> <<>>]

\* the generator's closure. stream: the chunks the reader has not delivered yet;
\* awaited: a next() of the consumer is pending (the body runs only then);
\* call: the latest call of readBytes, its n, startChunk and startCursor, the
\* chunk and cursor it left, and what it returned or threw
DecIdle ==
    [pc |-> "idle", stream |-> <<>>, verify |-> TRUE, chunk |-> 0, cursor |-> 0,
     chunks |-> <<>>, running |-> TRUE,
     nameLength |-> 0, name |-> <<>>, typeLength |-> 0, type |-> <<>>, size |-> 0,
     data |-> NoData, hash |-> <<>>,
     yielded |-> <<>>, error |-> NoError,
     awaited |-> FALSE, call |-> NoCall]

\* lines 75-92: the generator object over the input's chunks and the verify
\* option; an async generator runs none of its body before the first next()
DecOpen(chunkList, verifyOption) ==
    [DecIdle EXCEPT !.pc = "firstRead", !.stream = chunkList, !.verify = verifyOption]

\* throw new Error(...): only the hash mismatch names the entry; the pending
\* next() is rejected
Throw(d, kind) ==
    [d EXCEPT !.pc = "failed", !.awaited = FALSE,
              !.error = [kind |-> kind,
                         name |-> IF kind = "Hash mismatch" THEN d.name ELSE <<>>]]

EndOfFile == "Unexpected end of file while reading AssetBundle"

\* a source that never signals exhaustion: it delivers its chunk again and again
PushChunkRepeating(d) == [d EXCEPT !.chunks = Append(d.chunks, Head(d.stream))]

\* chunks.push((await reader.read()).value)
PushChunk(d) == [d EXCEPT !.chunks = Append(d.chunks, Head(d.stream)), !.stream = Tail(d.stream)]

\* lines 94-100
FirstRead(d) ==
    IF d.stream = <<>> THEN Throw(d, EndOfFile)
    ELSE [PushChunk(d) EXCEPT !.pc = "head", !.running = TRUE]

RECURSIVE AdvanceCursor(_, _, _)
\* lines 108-126: the loop of readBytes, with `bytes` of the n already passed
AdvanceCursor(d, bytes, n) ==
    IF bytes >= n THEN [d |-> d, ok |-> TRUE]
    ELSE IF d.chunk >= Len(d.chunks) /\ d.stream = <<>> THEN [d |-> d, ok |-> FALSE]
    ELSE LET d1 == IF d.chunk >= Len(d.chunks) THEN PushChunk(d) ELSE d
             chunkBytes == Len(d1.chunks[d1.chunk + 1]) - d1.cursor
         IN IF chunkBytes + bytes > n
            THEN [d |-> [d1 EXCEPT !.cursor = d1.cursor + (n - bytes)], ok |-> TRUE]
            ELSE AdvanceCursor([d1 EXCEPT !.chunk = d1.chunk + 1, !.cursor = 0],
                               bytes + chunkBytes, n)

\* a return that, for a read over several chunks, joins only the first and the
\* last part and leaves out the chunks between them
ReturnedBytesNoMiddle(d, startChunk, startCursor) ==
    IF startChunk = d.chunk
    THEN IF startChunk >= Len(d.chunks) THEN [ok |-> FALSE, bytes |-> <<>>]
         ELSE [ok |-> TRUE, bytes |-> Slice(d.chunks[startChunk + 1], startCursor, d.cursor)]
    ELSE IF startChunk = d.chunk - 1 /\ d.cursor = 0
    THEN [ok |-> TRUE,
          bytes |-> Slice(d.chunks[startChunk + 1], startCursor, Len(d.chunks[startChunk + 1]))]
    ELSE IF d.chunk >= Len(d.chunks) THEN [ok |-> FALSE, bytes |-> <<>>]
         ELSE [ok |-> TRUE,
               bytes |-> Slice(d.chunks[startChunk + 1], startCursor, Len(d.chunks[startChunk + 1]))
                         \o Slice(d.chunks[d.chunk + 1], 0, d.cursor)]

\* lines 128-150: the bytes readBytes returns once the cursor has moved from
\* (startChunk, startCursor) to (d.chunk, d.cursor); chunks[i] of an index that is
\* not in the list is undefined, and slicing it a TypeError
ReturnedBytes(d, startChunk, startCursor) ==
    IF startChunk = d.chunk
    THEN IF startChunk >= Len(d.chunks) THEN [ok |-> FALSE, bytes |-> <<>>]
         ELSE [ok |-> TRUE, bytes |-> Slice(d.chunks[startChunk + 1], startCursor, d.cursor)]
    ELSE IF startChunk = d.chunk - 1 /\ d.cursor = 0
    THEN [ok |-> TRUE,
          bytes |-> Slice(d.chunks[startChunk + 1], startCursor, Len(d.chunks[startChunk + 1]))]
    ELSE IF d.chunk >= Len(d.chunks) THEN [ok |-> FALSE, bytes |-> <<>>]
         ELSE [ok |-> TRUE,
               bytes |-> Slice(d.chunks[startChunk + 1], startCursor, Len(d.chunks[startChunk + 1]))
                         \o Concat(SubSeq(d.chunks, startChunk + 2, d.chunk))
                         \o Slice(d.chunks[d.chunk + 1], 0, d.cursor)]

\* lines 104-151: readBytes(n, blobType); error is "" when the call returns
ReadBytes(d, n) ==
    LET a == AdvanceCursor(d, 0, n)
        r == ReturnedBytes(a.d, d.chunk, d.cursor)
        error == IF ~a.ok THEN EndOfFile ELSE IF ~r.ok THEN "TypeError" ELSE ""
        bytes == IF error = "" THEN r.bytes ELSE <<>>
        call == [n |-> n, startChunk |-> d.chunk, startCursor |-> d.cursor,
                 chunk |-> a.d.chunk, cursor |-> a.d.cursor,
                 result |-> IF error = "" THEN "returned" ELSE error, bytes |-> bytes]
    IN [d |-> [a.d EXCEPT !.call = call], error |-> error, bytes |-> bytes]

\* lines 153-164
MaybeReadMore(d) ==
    IF d.cursor = 0 /\ d.chunk >= Len(d.chunks)
    THEN IF d.stream = <<>> THEN [d EXCEPT !.running = FALSE]
         ELSE [PushChunk(d) EXCEPT !.chunk = d.chunk + 1, !.cursor = 0]
    ELSE d

\* lines 166-171
ReadHead(d) ==
    LET r == ReadBytes(d, HeadLen)
    IN IF r.error # "" THEN Throw(r.d, r.error)
       ELSE IF \E i \in 1..HeadLen : r.bytes[i] # HEAD[i]
       THEN Throw(r.d, "Invalid AssetBundle header")
       ELSE [r.d EXCEPT !.pc = "nameLength"]

\* line 174
ReadNameLength(d) ==
    LET r == ReadBytes(d, 2)
    IN IF r.error # "" THEN Throw(r.d, r.error)
       ELSE [r.d EXCEPT !.pc = "name", !.nameLength = ReadUint16(r.bytes)]

\* line 175
ReadName(d) ==
    LET r == ReadBytes(d, d.nameLength)
    IN IF r.error # "" THEN Throw(r.d, r.error)
       ELSE [r.d EXCEPT !.pc = "typeLength", !.name = TextDecode(r.bytes)]

\* line 176
ReadTypeLength(d) ==
    LET r == ReadBytes(d, 2)
    IN IF r.error # "" THEN Throw(r.d, r.error)
       ELSE [r.d EXCEPT !.pc = "type", !.typeLength = ReadUint16(r.bytes)]

\* lines 177-180
ReadType(d) ==
    IF d.typeLength = 0 THEN [d EXCEPT !.pc = "size", !.type = OctetStream]
    ELSE LET r == ReadBytes(d, d.typeLength)
         IN IF r.error # "" THEN Throw(r.d, r.error)
            ELSE [r.d EXCEPT !.pc = "size", !.type = TextDecode(r.bytes)]

\* line 181
ReadSize(d) ==
    LET r == ReadBytes(d, 4)
    IN IF r.error # "" THEN Throw(r.d, r.error)
       ELSE [r.d EXCEPT !.pc = "data", !.size = ReadUint32(r.bytes)]

\* line 182: a Blob tagged with the type, or a bare ArrayBuffer when the type is ""
ReadData(d) ==
    LET r == ReadBytes(d, d.size)
    IN IF r.error # "" THEN Throw(r.d, r.error)
       ELSE [r.d EXCEPT !.pc = "hash",
                        !.data = [isBlob |-> d.type # <<>>, type |-> d.type, bytes |-> r.bytes]]

\* line 183
ReadHash(d) ==
    LET r == ReadBytes(d, HashLen)
    IN IF r.error # "" THEN Throw(r.d, r.error)
       ELSE [r.d EXCEPT !.pc = "verify", !.hash = r.bytes]

\* lines 184-192
Verify(d) ==
    IF ~d.verify THEN [d EXCEPT !.pc = "yield"]
    ELSE IF ~d.data.isBlob THEN Throw(d, "TypeError")
    ELSE IF \E i \in 1..Len(d.hash) : Sha1(d.data.bytes)[i] # d.hash[i]
    THEN Throw(d, "Hash mismatch")
    ELSE [d EXCEPT !.pc = "yield"]

\* a yield that fetches the next chunk ahead of the consumer's request
YieldPrefetching(d) ==
    LET y == [d EXCEPT !.pc = "maybeReadMore", !.awaited = FALSE,
                       !.yielded = Append(d.yielded, [name |-> d.name, data |-> d.data])]
    IN IF d.stream = <<>> THEN y ELSE PushChunk(y)

\* line 194: yield { name, data }; the pending next() resolves with the entry and
\* the generator is suspended until the next one
Yield(d) ==
    [d EXCEPT !.pc = "maybeReadMore", !.awaited = FALSE,
              !.yielded = Append(d.yielded, [name |-> d.name, data |-> d.data])]

\* line 195, then the loop's test on line 173
ReadMore(d) ==
    LET d1 == MaybeReadMore(d)
    IN IF d1.running THEN [d1 EXCEPT !.pc = "nameLength"]
       ELSE [d1 EXCEPT !.pc = "done", !.awaited = FALSE]

----------------------------------------------------------------------------
(* The archive format, lines 23-32, and the streams the decoder is given *)

\* one entry of a valid archive: name and type are strings, data the payload bytes
FormatEntry(e) ==
    LET nameBytes == Utf8Encode(e.name)
        typeBytes == Utf8Encode(e.type)
    IN Uint16Bytes(Len(nameBytes)) \o nameBytes
       \o Uint16Bytes(Len(typeBytes)) \o typeBytes
       \o Uint32Bytes(Len(e.data)) \o e.data
       \o Sha1(e.data)

RECURSIVE FormatEntries(_)
FormatEntries(es) ==
    IF es = <<>> THEN <<>> ELSE FormatEntry(Head(es)) \o FormatEntries(Tail(es))

\* the valid archive of the entries es
Archive(es) == HEAD \o FormatEntries(es)

\* the archive offset at which entry k ends (its digest's last byte); 7 for k = 0
EntryEnd(es, k) == Len(Archive(SubSeq(es, 1, k)))

NoChange == [kind |-> "none", at |-> 0]

\* what happened to the archive on its way: nothing, cut to its first `at` bytes,
\* or byte `at` changed
Changes(bytes) ==
    {NoChange}
    \cup {[kind |-> "cut", at |-> k] : k \in 0..(Len(bytes) - 1)}
    \cup {[kind |-> "flip", at |-> p] : p \in 1..Len(bytes)}

Changed(bytes, change) ==
    CASE change.kind = "cut" -> SubSeq(bytes, 1, change.at)
      [] change.kind = "flip" ->
            [bytes EXCEPT ![change.at] = (bytes[change.at] + 1) % 256]
      [] OTHER -> bytes

RECURSIVE Chunked(_, _)
\* the bytes as a stream delivers them in chunks of k bytes (the last one shorter)
Chunked(bytes, k) ==
    IF bytes = <<>> THEN <<>>
    ELSE IF Len(bytes) <= k THEN <<bytes>>
    ELSE <<SubSeq(bytes, 1, k)>> \o Chunked(SubSeq(bytes, k + 1, Len(bytes)), k)

\* a chunk size no archive of the model reaches: the stream is one chunk
WholeChunk == 4096

\* in place of a chunk size: the stream delivers the header with the first entry,
\* then one entry per chunk
AtEntryEnds == 0

RECURSIVE SplitAt(_, _, _)
\* the bytes from offset `from` on, in chunks that end at the offsets in `ends`
\* and at the end of the bytes
SplitAt(bytes, from, ends) ==
    LET next == {e \in ends : from < e /\ e < Len(bytes)}
    IN IF from >= Len(bytes) THEN <<>>
       ELSE IF next = {} THEN <<SubSeq(bytes, from + 1, Len(bytes))>>
       ELSE LET to == CHOOSE e \in next : \A f \in next : e <= f
            IN <<SubSeq(bytes, from + 1, to)>> \o SplitAt(bytes, to, ends)

ChunkSizes == (1..MaxChunkSize) \cup {WholeChunk, AtEntryEnds}

\* lines 82-85: new Blob([input]).stream(); the runtime delivers a small
\* in-memory Blob in one chunk, and an empty one in none
BlobStream(bytes) == IF bytes = <<>> THEN <<>> ELSE <<bytes>>

\* the entries the valid archives are made of: a name, a media type (empty in
\* one, so the default is read back) and a payload (empty in the other)
ArchiveEntries ==
    { [name |-> <<97>>, type |-> <<>>, data |-> <<1>>],
      [name |-> <<98>>, type |-> <<116>>, data |-> <<>>] }

NoSource == [entries |-> <<>>, change |-> NoChange, chunkSize |-> 0]

Sources ==
    UNION { { [entries |-> es, change |-> c, chunkSize |-> k] :
                c \in Changes(Archive(es)), k \in ChunkSizes } :
            es \in SeqsUpTo(ArchiveEntries, MaxEntries) }

\* the bytes of the decoder's input
SourceBytes ==
    IF op = "pack" THEN enc.blob.bytes
    ELSE Changed(Archive(source.entries), source.change)

\* the chunks a ReadableStream over the input delivers
SourceChunks ==
    IF source.chunkSize = AtEntryEnds
    THEN SplitAt(SourceBytes, 0, {EntryEnd(source.entries, k) : k \in 1..Len(source.entries)})
    ELSE Chunked(SourceBytes, source.chunkSize)

\* the stream readBytes is called on by itself: the bytes 1, 2, ..., so that
\* every position holds another byte
ReadStream == [i \in 1..MaxStream |-> i]

ReadSources ==
    {[entries |-> <<>>, change |-> NoChange, chunkSize |-> k] :
        k \in (1..MaxChunkSize) \cup {WholeChunk}}

\* the entries of the archives decodeAssetBundle is given: two of them have the
\* same name and different payloads
BundleEntries == ArchiveEntries \cup {[name |-> <<97>>, type |-> <<116>>, data |-> <<2>>]}

\* valid archives, as one chunk (a Blob) or as a stream of one entry per chunk
BundleSources ==
    {[entries |-> es, change |-> NoChange, chunkSize |-> k] :
        es \in SeqsUpTo(BundleEntries, MaxBundleEntries), k \in {WholeChunk, AtEntryEnds}}

----------------------------------------------------------------------------
(* The inputs of encodeAssetBundle *)

\* "a", "b", and "a" behind a byte order mark
Names == { <<97>>, <<98>>, <<65279, 97>> }

\* absent, "", "t"
Types == { TypeUndefined, TypeString(<<>>), TypeString(<<116>>) }

Datas ==
    { StringData(<<120>>),
      Uint8ArrayData(<<5>>, 0, 1),
      Uint8ArrayData(<<6, 7, 8>>, 1, 1),
      ArrayBufferData(<<9>>),
      BlobData(<<10>>) }

Files == [name : Names, type : Types, data : Datas]

FileLists == SeqsUpTo(Files, MaxFiles)

\* UTF-8 byte lengths of a name or a type, up to and beyond what 16 bits count
FieldLengths == {0, 1, 255, 256, Uint16Range - 1, Uint16Range, Uint16Range + 1, 2 * Uint16Range}

----------------------------------------------------------------------------
(* decodeAssetBundle *)

\* line 200: the map, its entries in insertion order; pc: where the function is
NoBundle == [pc |-> "idle", map |-> <<>>]

\* line 204: map.set(key, value): a Map keeps a key at the place of its first
\* insertion and replaces its value
MapSet(map, key, value) ==
    IF \E i \in 1..Len(map) : map[i].key = key
    THEN [i \in 1..Len(map) |->
             IF map[i].key = key THEN [key |-> key, value |-> value] ELSE map[i]]
    ELSE Append(map, [key |-> key, value |-> value])

----------------------------------------------------------------------------
(* The state machine *)

Init ==
    \/ /\ op = "pack"
       /\ files \in FileLists
       /\ enc = EncStart
       /\ lengths = NoLengths
       /\ source = NoSource
       /\ dec = DecIdle
       /\ bundle = NoBundle
    \/ /\ op = "read"
       /\ files = <<>>
       /\ enc = EncIdle
       /\ lengths = NoLengths
       /\ source \in Sources
       /\ dec = DecIdle
       /\ bundle = NoBundle
    \/ /\ op = "lengths"
       /\ files = <<>>
       /\ enc = EncIdle
       /\ lengths \in {[NoLengths EXCEPT !.pc = "start", !.nameByteLength = n,
                                          !.typeByteLength = t] :
                            n \in FieldLengths, t \in FieldLengths}
       /\ source = NoSource
       /\ dec = DecIdle
       /\ bundle = NoBundle
    \/ /\ op = "reads"
       /\ files = <<>>
       /\ enc = EncIdle
       /\ lengths = NoLengths
       /\ source \in ReadSources
       /\ dec = DecIdle
       /\ bundle = NoBundle
    \/ /\ op = "bundle"
       /\ files = <<>>
       /\ enc = EncIdle
       /\ lengths = NoLengths
       /\ source \in BundleSources
       /\ dec = DecIdle
       /\ bundle = NoBundle

\* encodeAssetBundle: one iteration of the loop
EncodeNext ==
    /\ enc.pc = "loop"
    /\ enc.i <= Len(files)
    /\ enc' = EncodeFile(enc, files[enc.i])
    /\ UNCHANGED <<op, files, lengths, source, dec, bundle>>

\* encodeAssetBundle: the loop is over, the Blob is returned
EncodeReturn ==
    /\ enc.pc = "loop"
    /\ enc.i > Len(files)
    /\ enc' = EncodeBlob(enc)
    /\ UNCHANGED <<op, files, lengths, source, dec, bundle>>

\* encodeAssetBundle: the length prefixes of one file's name and type
EncodeLengths ==
    /\ lengths.pc = "start"
    /\ lengths' = PushLengths(lengths)
    /\ UNCHANGED <<op, files, enc, source, dec, bundle>>

\* decodeAssetBundleStream(blob, { verify }) on the encoder's result
DecodeBlob ==
    /\ op = "pack"
    /\ enc.pc = "returned"
    /\ dec.pc = "idle"
    /\ \E v \in BOOLEAN : dec' = DecOpen(BlobStream(enc.blob.bytes), v)
    /\ UNCHANGED <<op, files, enc, lengths, source, bundle>>

\* decodeAssetBundleStream(stream, { verify }) on a ReadableStream
DecodeStream ==
    /\ op = "read"
    /\ dec.pc = "idle"
    /\ \E v \in BOOLEAN : dec' = DecOpen(SourceChunks, v)
    /\ UNCHANGED <<op, files, enc, lengths, source, bundle>>

\* lines 89-100 on a stream of the bytes 1, 2, ...: the reader, the cursor and the
\* first chunk, from where readBytes is called
OpenReads ==
    /\ op = "reads"
    /\ dec.pc = "idle"
    /\ dec' = [FirstRead(DecOpen(Chunked(ReadStream, source.chunkSize), TRUE))
                  EXCEPT !.pc = "reads", !.awaited = TRUE]
    /\ UNCHANGED <<op, files, enc, lengths, source, bundle>>

\* lines 102-151: one call readBytes(n, false)
ReadBytesCall ==
    /\ op = "reads"
    /\ dec.pc = "reads"
    /\ \E n \in 0..MaxRead :
          LET r == ReadBytes(dec, n)
          IN dec' = IF r.error # "" THEN Throw(r.d, r.error) ELSE r.d
    /\ UNCHANGED <<op, files, enc, lengths, source, bundle>>

\* lines 199-203: decodeAssetBundle(buffer) makes its map and the generator
\* (verify by default), and its for await asks for the first entry
DecodeAssetBundle ==
    /\ op = "bundle"
    /\ bundle.pc = "idle"
    /\ dec.pc = "idle"
    /\ dec' = [DecOpen(SourceChunks, TRUE) EXCEPT !.awaited = TRUE]
    /\ bundle' = [pc |-> "draining", map |-> <<>>]
    /\ UNCHANGED <<op, files, enc, lengths, source>>

\* lines 203-205: the loop's body on the entry just yielded, then the loop asks
\* for the next one
BundleSet ==
    /\ bundle.pc = "draining"
    /\ dec.pc = "maybeReadMore"
    /\ ~dec.awaited
    /\ LET file == dec.yielded[Len(dec.yielded)]
       IN bundle' = [bundle EXCEPT !.map = MapSet(bundle.map, file.name, file.data)]
    /\ dec' = [dec EXCEPT !.awaited = TRUE]
    /\ UNCHANGED <<op, files, enc, lengths, source>>

\* line 206: the generator is done, the map is returned
BundleReturn ==
    /\ bundle.pc = "draining"
    /\ dec.pc = "done"
    /\ bundle' = [bundle EXCEPT !.pc = "returned"]
    /\ UNCHANGED <<op, files, enc, lengths, source, dec>>

\* line 203: the generator threw, and so does decodeAssetBundle; its map is lost
BundleThrow ==
    /\ bundle.pc = "draining"
    /\ dec.pc = "failed"
    /\ bundle' = [pc |-> "thrown", map |-> <<>>]
    /\ UNCHANGED <<op, files, enc, lengths, source, dec>>

\* the consumer's generator.next() on a generator suspended at its start or at
\* its yield
NextRequest ==
    /\ op \in {"pack", "read"}
    /\ dec.pc \in {"firstRead", "maybeReadMore"}
    /\ ~dec.awaited
    /\ dec' = [dec EXCEPT !.awaited = TRUE]
    /\ UNCHANGED <<op, files, enc, lengths, source, bundle>>

\* the generator, a next() pending, runs from one await or yield to the next
DecStep(pc, next) ==
    /\ dec.pc = pc
    /\ dec.awaited
    /\ dec' = next
    /\ UNCHANGED <<op, files, enc, lengths, source, bundle>>

FirstReadStep == DecStep("firstRead", FirstRead(dec))

ReadHeadStep == DecStep("head", ReadHead(dec))

ReadNameLengthStep == DecStep("nameLength", ReadNameLength(dec))

ReadNameStep == DecStep("name", ReadName(dec))

ReadTypeLengthStep == DecStep("typeLength", ReadTypeLength(dec))

ReadTypeStep == DecStep("type", ReadType(dec))

ReadSizeStep == DecStep("size", ReadSize(dec))

ReadDataStep == DecStep("data", ReadData(dec))

ReadHashStep == DecStep("hash", ReadHash(dec))

VerifyStep == DecStep("verify", Verify(dec))

YieldStep == DecStep("yield", Yield(dec))

ReadMoreStep == DecStep("maybeReadMore", ReadMore(dec))

Next ==
    \/ EncodeNext
    \/ EncodeReturn
    \/ EncodeLengths
    \/ DecodeBlob
    \/ DecodeStream
    \/ OpenReads
    \/ ReadBytesCall
    \/ DecodeAssetBundle
    \/ BundleSet
    \/ BundleReturn
    \/ BundleThrow
    \/ NextRequest
    \/ FirstReadStep
    \/ ReadHeadStep
    \/ ReadNameLengthStep
    \/ ReadNameStep
    \/ ReadTypeLengthStep
    \/ ReadTypeStep
    \/ ReadSizeStep
    \/ ReadDataStep
    \/ ReadHashStep
    \/ VerifyStep
    \/ YieldStep
    \/ ReadMoreStep

Spec == Init /\ [][Next]_vars

\* the generator's body, from one await or yield to the next
DecodeNext ==
    \/ FirstReadStep
    \/ ReadHeadStep
    \/ ReadNameLengthStep
    \/ ReadNameStep
    \/ ReadTypeLengthStep
    \/ ReadTypeStep
    \/ ReadSizeStep
    \/ ReadDataStep
    \/ ReadHashStep
    \/ VerifyStep
    \/ YieldStep
    \/ ReadMoreStep

\* the generator is inside its body with a next() pending: a step of DecodeNext
\* is possible, and every such step moves dec.pc
Running ==
    /\ dec.awaited
    /\ dec.pc \in {"firstRead", "head", "nameLength", "name", "typeLength", "type",
                   "size", "data", "hash", "verify", "yield", "maybeReadMore"}

\* a consumer that keeps asking (generator.next(), or the for await of line 203)
\* over a source whose reads all settle: every await reader.read() of lines 94,
\* 114 and 158 resolves with a chunk or with done, so the body does not stay
\* suspended at an await. The last conjunct is WF_vars(DecodeNext) written with
\* Running for ENABLED <<DecodeNext>>_vars.
LiveSpec ==
    /\ Spec
    /\ WF_vars(NextRequest)
    /\ WF_vars(BundleSet)
    /\ ([]<>(~Running) \/ []<><<DecodeNext>>_vars)

----------------------------------------------------------------------------
(* What the claims speak of *)

EncFinal == enc.pc \in {"returned", "thrown"}

DecFinal == dec.pc \in {"done", "failed"}

DistinctNames(fs) == \A i, j \in 1..Len(fs) : fs[i].name = fs[j].name => i = j

\* the media type an entry is read back with: the default for an absent or empty one
ReadBackType(text) == IF text = <<>> THEN OctetStream ELSE text

\* what the decoder should yield for an input file of the encoder
ExpectedOfFile(f) ==
    [name |-> f.name,
     data |-> [isBlob |-> TRUE, type |-> ReadBackType(ToUSVString(f.type)),
               bytes |-> PayloadOf(f.data)]]

\* what the decoder should yield for an entry of a valid archive
ExpectedOfEntry(e) ==
    [name |-> e.name,
     data |-> [isBlob |-> TRUE, type |-> ReadBackType(e.type), bytes |-> e.data]]

\* the entry, if any, strictly inside which the archive offset `at` lies
InsideEntry(es, at) == {k \in 1..Len(es) : EntryEnd(es, k - 1) < at /\ at < EntryEnd(es, k)}

\* the archive offsets (1-based) of the payload bytes of entry k
PayloadOffsets(es, k) ==
    (EntryEnd(es, k) - HashLen - Len(es[k].data) + 1)..(EntryEnd(es, k) - HashLen)

\* the entries with payload byte `at` of the archive changed as Changed changes it
WithFlippedPayload(es, k, at) ==
    LET i == at - (EntryEnd(es, k) - HashLen - Len(es[k].data))
    IN [es EXCEPT ![k].data[i] = (es[k].data[i] + 1) % 256]

\* one step of the generator and of a consumer that asks again, by its position
StepOf(d) ==
    IF d.pc \in {"firstRead", "maybeReadMore"} /\ ~d.awaited THEN [d EXCEPT !.awaited = TRUE]
    ELSE
    CASE d.pc = "firstRead" -> FirstRead(d)
      [] d.pc = "head" -> ReadHead(d)
      [] d.pc = "nameLength" -> ReadNameLength(d)
      [] d.pc = "name" -> ReadName(d)
      [] d.pc = "typeLength" -> ReadTypeLength(d)
      [] d.pc = "type" -> ReadType(d)
      [] d.pc = "size" -> ReadSize(d)
      [] d.pc = "data" -> ReadData(d)
      [] d.pc = "hash" -> ReadHash(d)
      [] d.pc = "verify" -> Verify(d)
      [] d.pc = "yield" -> Yield(d)
      [] d.pc = "maybeReadMore" -> ReadMore(d)
      [] OTHER -> d

RECURSIVE Drain(_)
\* the generator drained by a consumer that asks until the end or an error
Drain(d) == IF d.pc \in {"done", "failed", "idle"} THEN d ELSE Drain(StepOf(d))

\* what a consumer sees of a drained decode
Outcome(d) == [yielded |-> d.yielded, end |-> d.pc, error |-> d.error]

\* the i-th piece (1..7) that file k pushed on the encoder's chunks
Pushed(k, i) == enc.chunks[7 * (k - 1) + i]

\* every chunk of the source, pulled or not
AllChunks(d) == d.chunks \o d.stream

RECURSIVE TotalLen(_)
TotalLen(ss) == IF ss = <<>> THEN 0 ELSE Len(Head(ss)) + TotalLen(Tail(ss))

\* the number of source bytes before the position (chunk, cursor)
AbsPos(d, chunk, cursor) == TotalLen(SubSeq(AllChunks(d), 1, chunk)) + cursor

\* the number of the source chunk that holds the at-th byte of the source
HoldingChunk(d, at) ==
    CHOOSE m \in 1..Len(AllChunks(d)) :
        /\ TotalLen(SubSeq(AllChunks(d), 1, m)) >= at
        /\ TotalLen(SubSeq(AllChunks(d), 1, m - 1)) < at

\* the generator is suspended at its yield, the entry handed to the consumer
SuspendedAtYield == dec.pc = "maybeReadMore" /\ ~dec.awaited

----------------------------------------------------------------------------
(* The claims *)

\* C1: round trip. For every list of entries with pairwise-distinct names, draining
\* the decoder over the encoder's Blob yields one entry per input entry, in input
\* order, with the same name, the same media type (absent or empty read back as
\* application/octet-stream) and the same payload bytes, and ends without error.
C1_RoundTrip ==
    (op = "pack" /\ DistinctNames(files) /\ DecFinal)
        => /\ dec.pc = "done"
           /\ dec.yielded = [k \in 1..Len(files) |-> ExpectedOfFile(files[k])]

\* C2: chunk-boundary independence. However the bytes of a stream are split into
\* chunks, the decode ends as the decode of the same bytes in one chunk does: the
\* same entries yielded, then the same clean end or the same error.
C2_ChunkIndependence ==
    (op = "read" /\ DecFinal)
        => Outcome(dec) = Outcome(Drain(DecOpen(BlobStream(SourceBytes), dec.verify)))

\* C3: digest integrity. With one payload byte of entry k of a valid archive changed,
\* a decode with verify fails with a hash mismatch naming entry k and never yields
\* entry k; a decode without verify yields every entry and ends without error.
C3_DigestIntegrity ==
    \A k \in 1..Len(source.entries) :
        (op = "read" /\ source.change.kind = "flip"
         /\ source.change.at \in PayloadOffsets(source.entries, k))
            => /\ (dec.verify /\ dec.pc # "idle") => Len(dec.yielded) < k
               /\ (dec.verify /\ DecFinal)
                    => /\ dec.pc = "failed"
                       /\ dec.error = [kind |-> "Hash mismatch", name |-> source.entries[k].name]
               /\ (~dec.verify /\ DecFinal)
                    => /\ dec.pc = "done"
                       /\ dec.yielded =
                            [i \in 1..Len(source.entries) |->
                                ExpectedOfEntry(WithFlippedPayload(
                                    source.entries, k, source.change.at)[i])]

\* C4: header rejection. A stream whose first 7 bytes differ from "BUNDLE1" fails,
\* under every chunking, with the invalid-header error and yields no entry.
C4_HeaderRejection ==
    (op = "read" /\ source.change.kind = "flip" /\ source.change.at <= HeadLen)
        => /\ dec.yielded = <<>>
           /\ dec.pc # "done"
           /\ dec.pc = "failed" => dec.error.kind = "Invalid AssetBundle header"

\* C5: truncation inside an entry. A valid archive cut strictly inside an entry
\* fails, under every chunking, with the unexpected-end-of-input error and never
\* ends cleanly.
C5_TruncationInsideEntry ==
    (op = "read" /\ source.change.kind = "cut"
     /\ InsideEntry(source.entries, source.change.at) # {})
        => /\ dec.pc # "done"
           /\ dec.pc = "failed" => dec.error.kind = EndOfFile

\* C6: truncation at an entry boundary. A valid archive cut exactly at the end of
\* entry k yields, under every chunking, entries 1..k in order and then ends
\* cleanly.
C6_TruncationAtBoundary ==
    \A k \in 1..Len(source.entries) :
        (op = "read" /\ DecFinal
         /\ \/ source.change = [kind |-> "cut", at |-> EntryEnd(source.entries, k)]
            \/ (source.change = NoChange /\ k = Len(source.entries)))
            => /\ dec.pc = "done"
               /\ dec.yielded = [i \in 1..k |-> ExpectedOfEntry(source.entries[i])]

\* C7: zero-entry archive. encodeAssetBundle([]) is the 7-byte header alone, a valid
\* archive: decoding it yields nothing and ends without error.
C7_ZeroEntryArchive ==
    (op = "pack" /\ files = <<>>)
        => /\ enc.pc = "returned" => enc.blob.bytes = Archive(<<>>)
           /\ dec.pc # "failed"
           /\ dec.yielded = <<>>

\* the name of the first entry, in list order, that repeats an earlier one
FirstRepeated(fs) ==
    LET j == CHOOSE j \in 1..Len(fs) :
                /\ \E i \in 1..(j - 1) : fs[i].name = fs[j].name
                /\ \A m \in 1..(j - 1) : \A i \in 1..(m - 1) : fs[i].name # fs[m].name
    IN fs[j].name

\* C8: duplicate rejection. If two entries have the same name, encodeAssetBundle
\* fails with the duplicate-name error carrying the first repeated name and returns
\* no archive; if all names are distinct it never raises that error.
C8_DuplicateRejection ==
    /\ (EncFinal /\ ~DistinctNames(files))
          => /\ enc.pc = "thrown"
             /\ enc.error = [kind |-> "Duplicate filename", name |-> FirstRepeated(files)]
             /\ ~enc.blob.made
    /\ DistinctNames(files) => enc.error.kind # "Duplicate filename"

\* C9: field size limit. If the UTF-8 of a name or media type is longer than 65535
\* bytes, encodeAssetBundle fails with a field-too-large error and makes no archive
\* (it pushes no prefix for such a field); it never writes a 16-bit length prefix
\* that differs from the length of the field after it.
C9_FieldSizeLimit ==
    /\ \A k \in 1..(enc.i - 1) :
          /\ ReadUint16(Pushed(k, 1)) = Len(Pushed(k, 2))
          /\ ReadUint16(Pushed(k, 3)) = Len(Pushed(k, 4))
    /\ lengths.pc = "pushed"
          => /\ ReadUint16(lengths.namePrefix) = lengths.nameByteLength
             /\ ReadUint16(lengths.typePrefix) = lengths.typeByteLength
             /\ lengths.nameByteLength < Uint16Range
             /\ lengths.typeByteLength < Uint16Range

\* the payload shapes the encoder accepts: raw bytes, a string, a Blob
Accepted(f) == f.data.shape \in {"string", "Uint8Array", "ArrayBuffer", "Blob"}

\* C10: payload shapes and media type. For each accepted payload shape with the
\* media type absent, empty or not empty, encodeAssetBundle succeeds and writes as
\* the media-type field exactly the UTF-8 of the supplied type (of length 0 when it
\* is absent or empty), never another value.
C10_PayloadShapes ==
    (EncFinal /\ DistinctNames(files) /\ \A k \in 1..Len(files) : Accepted(files[k]))
        => /\ enc.pc = "returned"
           /\ \A k \in 1..Len(files) :
                /\ Pushed(k, 4) = Utf8Encode(ToUSVString(files[k].type))
                /\ Pushed(k, 3) = Uint16Bytes(Len(Utf8Encode(ToUSVString(files[k].type))))

\* C11: payload stored unmodified. For an entry whose data is a byte view (offset,
\* length) over a backing buffer, also one that covers only part of the buffer, the
\* payload written is exactly the view's bytes and the 32-bit payload length is
\* the view's length.
C11_PayloadUnmodified ==
    \A k \in 1..(enc.i - 1) :
        files[k].data.shape = "Uint8Array"
            => /\ Pushed(k, 6) = PayloadOf(files[k].data)
               /\ Pushed(k, 5) = Uint32Bytes(files[k].data.byteLength)

\* C12: lazy, incremental pulling. The decoder pulls nothing from the source before
\* the consumer's first request, and nothing (it does no work at all) between the
\* yield of an entry and the consumer's next request; when an entry is yielded,
\* the chunks pulled so far are exactly the chunks up to and including the one
\* that holds the last byte of that entry's digest, so no later chunk was fetched.
C12_LazyPulling ==
    /\ [](dec.pc = "firstRead" /\ ~dec.awaited => dec.chunks = <<>>)
    /\ [](SuspendedAtYield =>
            /\ dec.call.n = HashLen /\ dec.call.result = "returned"
            /\ dec.chunk = dec.call.chunk /\ dec.cursor = dec.call.cursor
            /\ Len(dec.chunks) = HoldingChunk(dec, AbsPos(dec, dec.chunk, dec.cursor)))
    /\ [][(dec.pc # "idle" /\ ~dec.awaited) => [dec' EXCEPT !.awaited = FALSE] = dec]_vars

\* an entry was yielded from a stream of several chunks, some pulled, some not
C12_Witness ==
    /\ SuspendedAtYield
    /\ Len(dec.chunks) > 1
    /\ dec.stream # <<>>

\* the places of the entries whose name no earlier entry has
FirstOccurrences(es) == {k \in 1..Len(es) : \A j \in 1..(k - 1) : es[j].name # es[k].name}

\* the last entry of es with the name
LastNamed(es, name) ==
    es[CHOOSE k \in 1..Len(es) :
          /\ es[k].name = name
          /\ \A j \in (k + 1)..Len(es) : es[j].name # name]

RECURSIVE KeysFrom(_, _)
\* the distinct names of es from place k on, in the order of their first occurrence
KeysFrom(es, k) ==
    IF k > Len(es) THEN <<>>
    ELSE IF k \in FirstOccurrences(es) THEN <<es[k].name>> \o KeysFrom(es, k + 1)
    ELSE KeysFrom(es, k + 1)

\* the mapping of an archive's entries: a key per distinct name, in the order of
\* first occurrence, with the payload of the last entry of that name
MappingOf(es) ==
    LET keys == KeysFrom(es, 1)
    IN [i \in 1..Len(keys) |->
           [key |-> keys[i], value |-> ExpectedOfEntry(LastNamed(es, keys[i])).data]]

\* C13: non-streaming decode. decodeAssetBundle drains the streaming decoder and
\* returns a mapping whose keys are the distinct names in order of first occurrence
\* in the archive and whose value for a name is the payload of the last entry with
\* that name; if the streaming decoder fails, decodeAssetBundle fails and returns
\* no mapping.
C13_NonStreamingDecode ==
    op = "bundle"
        => /\ bundle.pc = "returned"
                => /\ dec.pc = "done"
                   /\ bundle.map = MappingOf(source.entries)
           /\ bundle.pc = "thrown" => dec.pc = "failed" /\ bundle.map = <<>>
           /\ dec.pc = "failed" => bundle.pc \in {"draining", "thrown"}

\* the entries of the input list as an archive holds them: the name, the type
\* (none when absent) and the payload bytes
EntriesOf(fs) ==
    [k \in 1..Len(fs) |->
        [name |-> fs[k].name, type |-> ToUSVString(fs[k].type), data |-> PayloadOf(fs[k].data)]]

RECURSIVE LayoutSize(_)
\* 28 + nameLen + typeLen + payloadLen, summed over the entries
LayoutSize(es) ==
    IF es = <<>> THEN 0
    ELSE 2 + Len(Utf8Encode(Head(es).name)) + 2 + Len(Utf8Encode(Head(es).type))
         + 4 + Len(Head(es).data) + HashLen + LayoutSize(Tail(es))

\* C14: archive layout. The output of encodeAssetBundle is the 7-byte magic, then
\* for each input entry in input order its 2-byte name length, name bytes, 2-byte
\* type length, type bytes, 4-byte payload length, payload bytes and the 20-byte
\* digest of the payload, and nothing else; its size is 7 plus the sum over the
\* entries of 28 + nameLen + typeLen + payloadLen, so it is never empty; its media
\* type is application/asset-bundle.
C14_ArchiveLayout ==
    /\ enc.pc = "returned"
          => /\ enc.blob.made
             /\ enc.blob.bytes = Archive(EntriesOf(files))
             /\ Len(enc.blob.bytes) = HeadLen + LayoutSize(EntriesOf(files))
             /\ enc.blob.bytes # <<>>
             /\ enc.blob.type = "application/asset-bundle"
    /\ lengths.pc = "pushed"
          => /\ Len(lengths.namePrefix) = 2 /\ Len(lengths.typePrefix) = 2
             /\ ReadUint16(lengths.namePrefix) = lengths.nameByteLength
             /\ ReadUint16(lengths.typePrefix) = lengths.typeByteLength

\* the source position before and after the latest call of readBytes
CallFrom == AbsPos(dec, dec.call.startChunk, dec.call.startCursor)
CallTo == AbsPos(dec, dec.call.chunk, dec.call.cursor)

\* C15: readExact correctness. For every n >= 0, every cursor position and every
\* chunking, a call readBytes(n) that returns, returns exactly the n bytes of the
\* concatenated source at the positions [p, p + n), p being the position before
\* the call, and leaves the position at p + n, whichever of the three return
\* paths it takes.
C15_ReadExact ==
    dec.call.result = "returned"
        => /\ dec.call.bytes = SubSeq(Concat(AllChunks(dec)), CallFrom + 1, CallFrom + dec.call.n)
           /\ Len(dec.call.bytes) = dec.call.n
           /\ CallTo = CallFrom + dec.call.n

\* a call on the stream 1, 2, ... returned bytes of three chunks or more
C15_Witness ==
    /\ op = "reads"
    /\ dec.call.result = "returned"
    /\ dec.call.chunk > dec.call.startChunk + 1
    /\ dec.call.startCursor > 0

\* C16: non-destructive end-of-archive probe. The check for the end made after an
\* entry was yielded (maybeReadMore) never changes the position in the source:
\* whether or not it pulled a chunk, the next field read starts where the read of
\* the yielded entry's digest ended, so no source byte is skipped or read twice.
C16_NonDestructiveProbe ==
    (dec.pc = "nameLength" /\ dec.yielded # <<>>)
        => AbsPos(dec, dec.chunk, dec.cursor) = CallTo

\* the archive offsets (1-based) of the payload and the digest of entry k
DigestedOffsets(es, k) ==
    (EntryEnd(es, k) - HashLen - Len(es[k].data) + 1)..EntryEnd(es, k)

\* C17: error follows a valid prefix. For an archive whose first k entries are well
\* formed and whose entry k + 1 has a digest that does not match its payload,
\* decoding with verify = true, under every chunking, yields exactly the entries
\* 1..k in archive order, then fails at entry k + 1 with the hash mismatch, and
\* yields nothing after that.
C17_ErrorFollowsPrefix ==
    \A j \in 1..Len(source.entries) :
        (/\ op = "read"
         /\ dec.verify
         /\ source.change.kind = "flip"
         /\ source.change.at \in DigestedOffsets(source.entries, j))
            => /\ Len(dec.yielded) < j
               /\ \A i \in 1..Len(dec.yielded) :
                     dec.yielded[i] = ExpectedOfEntry(source.entries[i])
               /\ DecFinal
                     => /\ dec.pc = "failed"
                        /\ dec.error = [kind |-> "Hash mismatch", name |-> source.entries[j].name]
                        /\ Len(dec.yielded) = j - 1

\* the errors the decoder declares: part_000:170, 106/121, 187-190
DeclaredErrors == {"Invalid AssetBundle header", EndOfFile, "Hash mismatch"}

ChunksSpanned ==
    IF dec.call.cursor = 0 /\ dec.call.chunk > dec.call.startChunk
    THEN dec.call.chunk - dec.call.startChunk
    ELSE dec.call.chunk - dec.call.startChunk + 1

\* C19: bounded chunk retention. Chunks wholly before the cursor's current chunk
\* index are evicted from the retained chunk list, so after any sequence of field
\* reads the number of retained chunks is bounded by the number of chunks spanned
\* by the field being read and does not grow with the number of chunks pulled.
C19_BoundedRetention ==
    dec.call.result = "returned" => Len(dec.chunks) <= ChunksSpanned

\* the read position in source bytes
Position(d) == AbsPos(d, d.chunk, d.cursor)

\* the positions of the parse loop in the order of lines 174-195, and the bytes
\* each reads at least: two length prefixes, the size and the digest
LoopOrder == <<"nameLength", "name", "typeLength", "type", "size", "data", "hash",
               "verify", "yield", "maybeReadMore", "nameLength">>

LeastRead(pc) ==
    CASE pc \in {"nameLength", "typeLength"} -> 2
      [] pc = "size" -> 4
      [] pc = "hash" -> HashLen
      [] OTHER -> 0

LeastEntryLen == 2 + 2 + 4 + HashLen

\* a step of the generator inside the parse loop that neither fails nor ends it
LoopStep ==
    /\ dec.pc \in {LoopOrder[i] : i \in 1..Len(LoopOrder)}
    /\ dec'.pc \notin {dec.pc, "failed", "done"}

\* C20: termination. For every source that delivers finitely many chunks and then
\* signals exhaustion, a consumer that keeps requesting the next entry eventually
\* receives a clean end of sequence or an error; every request issues finitely
\* many source pulls (each pull takes one of the chunks the source still has and
\* none is pulled twice); and every iteration of the parse loop advances the
\* absolute read position by at least 28 bytes or fails.
C20_Termination ==
    /\ (dec.pc = "firstRead") ~> DecFinal
    /\ [][dec.pc # "idle" => /\ Len(dec'.stream) <= Len(dec.stream)
                             /\ AllChunks(dec') = AllChunks(dec)]_vars
    /\ [][LoopStep =>
            /\ \E i \in 1..(Len(LoopOrder) - 1) :
                  dec.pc = LoopOrder[i] /\ dec'.pc = LoopOrder[i + 1]
            /\ Position(dec') >= Position(dec) + LeastRead(dec.pc)]_vars
    /\ [](dec.pc = "nameLength"
            => Position(dec) >= HeadLen + LeastEntryLen * Len(dec.yielded))

\* a decode of several chunks and several requests that has ended cleanly
C20_Witness ==
    /\ dec.pc = "done"
    /\ Len(dec.yielded) >= 2
    /\ Len(dec.chunks) > 2
    /\ Position(dec) >= HeadLen + LeastEntryLen * Len(dec.yielded)

====
